---- MODULE Spec2Model ----
(***************************************************************************)
(* AHK Script Builder (src/ahk_gui_generator.py): the Action model, the    *)
(* structured-comment codec (Action.to_comment and the .ahk branch of      *)
(* MainWindow.load_file), the script-line generator (Action.to_ahk_lines), *)
(* the JSON project persistence (save_project / load_file) and the list    *)
(* editing handlers of MainWindow.                                         *)
(*                                                                         *)
(* A Python str is modelled as a sequence of one-character strings, so     *)
(* that strip, split, replace, startswith, str(int) and int(str) are       *)
(* computed character by character as the code computes them.              *)
(***************************************************************************)
EXTENDS Integers, Sequences, FiniteSets, TLC

VARIABLES
    app_name,     \* text of self.app_name_edit
    hotkey,       \* text of self.hotkey_edit
    actions,      \* self.actions: the list of Action
    row,          \* self.table.currentRow(), 0-based, -1 = no selection
    table_rows,   \* self.table.rowCount(), set by refresh_table
    json_file,    \* the project document on disk (a JSON value) or NoFile
    ahk_file,     \* the text of the .ahk script on disk or NoFile
    msg,          \* outcome of the last handler: message box shown / exception raised
    saved,        \* history: the project as it was when the file on disk was written
    picked,       \* history: the content of the file the last load_file was given
    fs,           \* the paths for which os.path.exists is true
    codec         \* the codec harness: an input Action and the values computed from it

vars == <<app_name, hotkey, actions, row, table_rows, json_file, ahk_file, msg, saved, picked,
          fs, codec>>

projVars == <<app_name, hotkey, actions, row, table_rows, json_file, ahk_file, msg, saved, picked>>

(***************************************************************************)
(* Bounds of the model.                                                    *)
(***************************************************************************)
MaxText == 2      \* total length of the free-text fields of a codec input
MaxActions == 2   \* length of self.actions reached through add_action
MaxRecords == 2   \* number of records / marker lines of a hand-written file

(***************************************************************************)
(* Python str helpers.                                                     *)
(***************************************************************************)
Whitespace == {" ", "\t", "\n", "\r", "\f"}

Digits == <<"0", "1", "2", "3", "4", "5", "6", "7", "8", "9">>

Contains(s, c) == \E i \in DOMAIN s : s[i] = c

StartsWith(s, p) == Len(s) >= Len(p) /\ SubSeq(s, 1, Len(p)) = p

Replace(s, from, to) == [i \in DOMAIN s |-> IF s[i] = from THEN to ELSE s[i]]

RECURSIVE LStrip(_)
LStrip(s) == IF s # <<>> /\ Head(s) \in Whitespace THEN LStrip(Tail(s)) ELSE s

RECURSIVE RStrip(_)
RStrip(s) ==
    IF s # <<>> /\ s[Len(s)] \in Whitespace THEN RStrip(SubSeq(s, 1, Len(s) - 1)) ELSE s

Strip(s) == RStrip(LStrip(s))

\* index of the first occurrence of c in s, 0 when there is none
IndexOf(s, c) ==
    IF Contains(s, c) THEN CHOOSE i \in DOMAIN s : s[i] = c /\ \A j \in 1..(i - 1) : s[j] # c
    ELSE 0

RECURSIVE Split(_, _)
Split(s, sep) ==
    LET i == IndexOf(s, sep)
    IN  IF i = 0 THEN <<s>>
        ELSE <<SubSeq(s, 1, i - 1)>> \o Split(SubSeq(s, i + 1, Len(s)), sep)

RECURSIVE Join(_, _)
Join(lines, sep) ==
    IF lines = <<>> THEN <<>>
    ELSE IF Len(lines) = 1 THEN lines[1]
    ELSE lines[1] \o <<sep>> \o Join(Tail(lines), sep)

RECURSIVE NatToStr(_)
NatToStr(n) == IF n < 10 THEN <<Digits[n + 1]>> ELSE NatToStr(n \div 10) \o <<Digits[(n % 10) + 1]>>

\* str(n) as an f-string formats an int
IntToStr(n) == IF n < 0 THEN <<"-">> \o NatToStr(0 - n) ELSE NatToStr(n)

DigitValue(c) == CHOOSE d \in 0..9 : Digits[d + 1] = c

IsDigit(c) == \E d \in 1..10 : Digits[d] = c

RECURSIVE DigitsToNat(_)
DigitsToNat(s) ==
    IF s = <<>> THEN 0 ELSE 10 * DigitsToNat(SubSeq(s, 1, Len(s) - 1)) + DigitValue(s[Len(s)])

\* int(s): surrounding whitespace is ignored, an optional sign, then one or
\* more decimal digits; anything else raises ValueError (ok = FALSE)
ParseInt(s) ==
    LET t == Strip(s)
        signed == t # <<>> /\ Head(t) \in {"+", "-"}
        body == IF signed THEN Tail(t) ELSE t
        good == body # <<>> /\ \A i \in DOMAIN body : IsDigit(body[i])
    IN  IF ~good THEN [ok |-> FALSE, val |-> 0]
        ELSE [ok |-> TRUE,
              val |-> IF signed /\ Head(t) = "-" THEN 0 - DigitsToNat(body) ELSE DigitsToNat(body)]

(***************************************************************************)
(* ActionType and Action.                                                  *)
(***************************************************************************)
ActionTypeMembers == {"CLICK", "SLEEP", "RUN", "KEYPRESS", "WAITWINDOW"}

\* member.value
ActionTypeValue(t) ==
    CASE t = "CLICK" -> <<"C", "l", "i", "c", "k">>
      [] t = "SLEEP" -> <<"S", "l", "e", "e", "p">>
      [] t = "RUN" -> <<"R", "u", "n">>
      [] t = "KEYPRESS" -> <<"K", "e", "y", "P", "r", "e", "s", "s">>
      [] t = "WAITWINDOW" -> <<"W", "a", "i", "t", "W", "i", "n", "d", "o", "w">>

\* ActionType(v) looks the member up by value and raises ValueError without one
IsActionTypeValue(v) == \E t \in ActionTypeMembers : ActionTypeValue(t) = v

ActionTypeOf(v) == CHOOSE t \in ActionTypeMembers : ActionTypeValue(t) = v

ModeNormal == <<"N", "o", "r", "m", "a", "l">>

ModeMinimized == <<"M", "i", "n", "i", "m", "i", "z", "e", "d">>

ModeMaximized == <<"M", "a", "x", "i", "m", "i", "z", "e", "d">>

ModeHidden == <<"H", "i", "d", "d", "e", "n">>

\* the dataclass constructor with its field defaults
Action(type, name, x, y, ms, command, mode, params) ==
    [type |-> type, name |-> name, x |-> x, y |-> y, ms |-> ms,
     command |-> command, mode |-> mode, params |-> params]

(***************************************************************************)
(* Action.to_comment                                                       *)
(***************************************************************************)
MARKER == <<";", "A", "C", "T", "I", "O", "N", ":">>

\* mutant of safe_params: the ';' of params is not replaced
safe_params_unescaped(a) == a.params

safe_params(a) == Replace(a.params, ";", ",")

to_comment(a) ==
    CASE a.type = "CLICK" ->
            MARKER \o <<"C", "l", "i", "c", "k">>
                \o <<";", "N", "a", "m", "e", "=">> \o a.name
                \o <<";", "X", "=">> \o IntToStr(a.x)
                \o <<";", "Y", "=">> \o IntToStr(a.y)
      [] a.type = "SLEEP" ->
            MARKER \o <<"S", "l", "e", "e", "p">>
                \o <<";", "N", "a", "m", "e", "=">> \o a.name
                \o <<";", "M", "S", "=">> \o IntToStr(a.ms)
      [] a.type = "RUN" ->
            MARKER \o <<"R", "u", "n">>
                \o <<";", "N", "a", "m", "e", "=">> \o a.name
                \o <<";", "C", "m", "d", "=">> \o a.command
                \o <<";", "P", "a", "r", "a", "m", "s", "=">> \o safe_params(a)
                \o <<";", "M", "o", "d", "e", "=">> \o a.mode
      [] a.type = "KEYPRESS" ->
            MARKER \o <<"K", "e", "y", "P", "r", "e", "s", "s">>
                \o <<";", "N", "a", "m", "e", "=">> \o a.name
                \o <<";", "K", "e", "y", "=">> \o a.command
      [] a.type = "WAITWINDOW" ->
            MARKER \o <<"W", "a", "i", "t", "W", "i", "n", "d", "o", "w">>
                \o <<";", "N", "a", "m", "e", "=">> \o a.name
                \o <<";", "T", "i", "t", "l", "e", "=">> \o a.command
      [] OTHER ->
            MARKER \o <<"U", "n", "k", "n", "o", "w", "n">>
                \o <<";", "N", "a", "m", "e", "=">> \o a.name

(***************************************************************************)
(* Action.to_ahk_lines.  exists is the value of os.path.exists(command).   *)
(***************************************************************************)
mode_map(mode) ==
    CASE mode = ModeNormal -> <<>>
      [] mode = ModeMinimized -> <<"M", "i", "n">>
      [] mode = ModeMaximized -> <<"M", "a", "x">>
      [] mode = ModeHidden -> <<"H", "i", "d", "e">>
      [] OTHER -> <<>>

param_text(a) == IF a.params # <<>> THEN <<" ">> \o a.params ELSE <<>>

\* mutant of cmd_wrapped: quotes only an existing command with a space and no quote
cmd_wrapped_and(cmd, exists) ==
    IF exists /\ Contains(cmd, " ") /\ ~Contains(cmd, "\"")
    THEN <<"\"">> \o cmd \o <<"\"">>
    ELSE cmd

cmd_wrapped(cmd, exists) ==
    IF exists /\ (Contains(cmd, " ") \/ ~Contains(cmd, "\""))
    THEN <<"\"">> \o cmd \o <<"\"">>
    ELSE cmd

\* mutant of run_line: the launch-mode argument is emitted even when the token is empty
run_line_one_shape(a, exists) ==
    <<"R", "u", "n", ",", " ">> \o cmd_wrapped(a.command, exists) \o param_text(a)
        \o <<",", " ", ",", " ">> \o mode_map(a.mode)

run_line(a, exists) ==
    LET ahk_mode == mode_map(a.mode)
    IN  IF ahk_mode # <<>>
        THEN <<"R", "u", "n", ",", " ">> \o cmd_wrapped(a.command, exists) \o param_text(a)
                \o <<",", " ", ",", " ">> \o ahk_mode
        ELSE <<"R", "u", "n", ",", " ">> \o cmd_wrapped(a.command, exists) \o param_text(a)

to_ahk_lines(a, exists) ==
    CASE a.type = "CLICK" ->
            << <<"M", "o", "u", "s", "e", "M", "o", "v", "e", ",", " ">>
                    \o IntToStr(a.x) \o <<",", " ">> \o IntToStr(a.y),
               <<"C", "l", "i", "c", "k">> >>
      [] a.type = "SLEEP" ->
            << <<"S", "l", "e", "e", "p", ",", " ">> \o IntToStr(a.ms) >>
      [] a.type = "RUN" ->
            << run_line(a, exists) >>
      [] a.type = "KEYPRESS" ->
            << <<"S", "e", "n", "d", ",", " ">> \o a.command >>
      [] a.type = "WAITWINDOW" ->
            << <<"W", "i", "n", "W", "a", "i", "t", ",", " ">> \o a.command
                    \o <<",", " ", ",", " ", "1", "0">>,
               <<"W", "i", "n", "A", "c", "t", "i", "v", "a", "t", "e", ",", " ">> \o a.command >>
      [] OTHER -> <<>>

(***************************************************************************)
(* The line decoder of MainWindow.load_file (.ahk branch).                 *)
(***************************************************************************)
\* kv = {}; for p in parts[1:]: if '=' in p: k, v = p.split('=', 1); kv[k] = v
RECURSIVE parse_kv(_, _)
parse_kv(parts, kv) ==
    IF parts = <<>> THEN kv
    ELSE LET p == Head(parts)
             i == IndexOf(p, "=")
             k == SubSeq(p, 1, i - 1)
             v == SubSeq(p, i + 1, Len(p))
         IN  IF i = 0 THEN parse_kv(Tail(parts), kv)
             ELSE parse_kv(Tail(parts),
                           [key \in (DOMAIN kv) \cup {k} |-> IF key = k THEN v ELSE kv[key]])

\* kv.get(key, default)
kv_get(kv, key, default) == IF key \in DOMAIN kv THEN kv[key] ELSE default

\* int(kv.get(key, 0))
kv_int(kv, key) == IF key \in DOMAIN kv THEN ParseInt(kv[key]) ELSE [ok |-> TRUE, val |-> 0]

Appended(a) == [outcome |-> "appended", acts |-> <<a>>]

Dropped(why) == [outcome |-> why, acts |-> <<>>]

\* the try block, for a stripped line that starts with the marker
decode_marker_line(line) ==
    LET rest == SubSeq(line, Len(MARKER) + 1, Len(line))
        parts == Split(rest, ";")
        typ == parts[1]
        kv == parse_kv(Tail(parts), <<>>)
        X == kv_int(kv, <<"X">>)
        Y == kv_int(kv, <<"Y">>)
        MS == kv_int(kv, <<"M", "S">>)
    IN  CASE typ = <<"C", "l", "i", "c", "k">> ->
                IF X.ok /\ Y.ok
                THEN Appended(Action("CLICK", kv_get(kv, <<"N", "a", "m", "e">>, typ),
                                     X.val, Y.val, 0, <<>>, ModeNormal, <<>>))
                ELSE Dropped("ValueError")
          [] typ = <<"S", "l", "e", "e", "p">> ->
                IF MS.ok
                THEN Appended(Action("SLEEP", kv_get(kv, <<"N", "a", "m", "e">>, typ),
                                     0, 0, MS.val, <<>>, ModeNormal, <<>>))
                ELSE Dropped("ValueError")
          [] typ = <<"R", "u", "n">> ->
                Appended(Action("RUN", kv_get(kv, <<"N", "a", "m", "e">>, typ), 0, 0, 0,
                                kv_get(kv, <<"C", "m", "d">>, <<>>),
                                kv_get(kv, <<"M", "o", "d", "e">>, ModeNormal),
                                kv_get(kv, <<"P", "a", "r", "a", "m", "s">>, <<>>)))
          [] typ = <<"K", "e", "y", "P", "r", "e", "s", "s">> ->
                Appended(Action("KEYPRESS", kv_get(kv, <<"N", "a", "m", "e">>, typ), 0, 0, 0,
                                kv_get(kv, <<"K", "e", "y">>, <<>>), ModeNormal, <<>>))
          [] typ = <<"W", "a", "i", "t", "W", "i", "n", "d", "o", "w">> ->
                Appended(Action("WAITWINDOW", kv_get(kv, <<"N", "a", "m", "e">>, typ), 0, 0, 0,
                                kv_get(kv, <<"T", "i", "t", "l", "e">>, <<>>), ModeNormal, <<>>))
          [] OTHER -> Dropped("continue")

\* one iteration of "for line in f"
import_line(raw) ==
    LET line == Strip(raw)
    IN  IF StartsWith(line, MARKER) THEN decode_marker_line(line) ELSE Dropped("not a marker line")

\* mutant of import_lines: the first line that raises ends the loop
RECURSIVE import_lines_abort(_)
import_lines_abort(raws) ==
    IF raws = <<>> THEN <<>>
    ELSE IF import_line(Head(raws)).outcome = "ValueError" THEN <<>>
    ELSE import_line(Head(raws)).acts \o import_lines_abort(Tail(raws))

RECURSIVE import_lines(_)
import_lines(raws) ==
    IF raws = <<>> THEN <<>> ELSE import_line(Head(raws)).acts \o import_lines(Tail(raws))

\* the whole loop over the file's text
import_text(text) == import_lines(Split(text, "\n"))

(***************************************************************************)
(* The state after MainWindow.__init__.                                    *)
(***************************************************************************)
DefaultAction == Action("CLICK", <<"C", "l", "i", "c", "k">>, 0, 0, 0, <<>>, ModeNormal, <<>>)

CodecIdle ==
    [pc |-> "idle", a |-> DefaultAction, comment |-> <<>>, decoded |-> Dropped("none"),
     comment2 |-> <<>>, decoded2 |-> Dropped("none"), lines |-> <<>>]

InitWindow ==
    /\ app_name = <<"M", "y", "S", "c", "r", "i", "p", "t">>
    /\ hotkey = <<"^", "!", "z">>
    /\ actions = <<>>
    /\ row = -1
    /\ table_rows = 0
    /\ json_file = <<>>
    /\ ahk_file = <<>>
    /\ msg = "none"
    /\ saved = <<>>
    /\ picked = <<>>

(***************************************************************************)
(* The codec harness: one Action, drawn from bounded sets, is encoded with *)
(* to_comment, decoded with the importer's line decoder, encoded and       *)
(* decoded once more, and given to to_ahk_lines.                           *)
(***************************************************************************)
NameChars == {"n", ";", "="}

CmdChars == {"c", " ", "\"", ";"}

ParamChars == {"p", ";", ","}

TextsOver(chars, n) == UNION {[1..k -> chars] : k \in 0..n}

\* the four modes of the dialog's combo box and two strings a loaded document
\* can carry instead: a launch-mode token used as a mode, a mode ending in a space
CodecModes ==
    {ModeNormal, ModeMinimized, ModeMaximized, ModeHidden, <<"M", "i", "n">>, <<"M", " ">>}

CodecInputs ==
    LET names == TextsOver(NameChars, MaxText)
        cmds == TextsOver(CmdChars, MaxText)
        pars == TextsOver(ParamChars, MaxText)
    IN  {Action("CLICK", n, x, y, 0, <<>>, ModeNormal, <<>>) :
            n \in names, x \in {0, -5, 100}, y \in {0, 200}}
        \cup {Action("SLEEP", n, 0, 0, ms, <<>>, ModeNormal, <<>>) : n \in names, ms \in {0, 500}}
        \cup {Action("RUN", t[1], 0, 0, 0, t[2], m, t[3]) :
                t \in {u \in names \X cmds \X pars : Len(u[1]) + Len(u[2]) + Len(u[3]) <= MaxText},
                m \in CodecModes}
        \cup {Action(k, t[1], 0, 0, 0, t[2], ModeNormal, <<>>) :
                t \in {u \in names \X cmds : Len(u[1]) + Len(u[2]) <= MaxText},
                k \in {"KEYPRESS", "WAITWINDOW"}}

InitCodec ==
    /\ InitWindow
    /\ \E a \in CodecInputs :
        /\ codec = [CodecIdle EXCEPT !.pc = "input", !.a = a]
        /\ fs \in (IF a.type = "RUN" /\ a.command # <<>> THEN {{}, {a.command}} ELSE {{}})

\* os.path.exists(path)
exists(path) == path \in fs

CodecToComment ==
    /\ codec.pc = "input"
    /\ codec' = [codec EXCEPT !.pc = "encoded", !.comment = to_comment(codec.a)]
    /\ UNCHANGED <<projVars, fs>>

CodecDecode ==
    /\ codec.pc = "encoded"
    /\ codec' = [codec EXCEPT !.pc = "decoded", !.decoded = import_line(codec.comment)]
    /\ UNCHANGED <<projVars, fs>>

CodecReEncode ==
    /\ codec.pc = "decoded"
    /\ codec.decoded.acts # <<>>
    /\ codec' = [codec EXCEPT !.pc = "reencoded",
                              !.comment2 = to_comment(codec.decoded.acts[1])]
    /\ UNCHANGED <<projVars, fs>>

CodecDecodeAgain ==
    /\ codec.pc = "reencoded"
    /\ codec' = [codec EXCEPT !.pc = "redecoded", !.decoded2 = import_line(codec.comment2)]
    /\ UNCHANGED <<projVars, fs>>

CodecToAhkLines ==
    /\ codec.pc = "redecoded"
    /\ codec' = [codec EXCEPT !.pc = "done",
                              !.lines = to_ahk_lines(codec.a, exists(codec.a.command))]
    /\ UNCHANGED <<projVars, fs>>

NextCodec ==
    \/ CodecToComment
    \/ CodecDecode
    \/ CodecReEncode
    \/ CodecDecodeAgain
    \/ CodecToAhkLines

SpecCodec == InitCodec /\ [][NextCodec]_vars

(***************************************************************************)
(* MainWindow: the list editing handlers.                                  *)
(***************************************************************************)
\* ActionDialog.get_action: the Action built from the dialog's widgets
get_action(t, name, x, y, ms, command, mode, params) ==
    Action(t, IF name # <<>> THEN name ELSE ActionTypeValue(t), x, y, ms, command, mode, params)

\* what the user can leave in the dialog when pressing OK
DialogActions ==
    { get_action("CLICK", <<"S", "t", "a", "r", "t">>, 100, 200, 0, <<>>, ModeNormal, <<>>),
      get_action("SLEEP", <<>>, 0, 0, 500, <<>>, ModeNormal, <<>>),
      get_action("RUN", <<"r">>, 7, 8, 9, <<"c", " ", "d">>, ModeHidden, <<"p", ";", "q">>) }

AppNames == { <<"M", "y", "S", "c", "r", "i", "p", "t">>, <<"D", "e", "m", "o">> }

Hotkeys == { <<"^", "!", "z">>, <<" ">> }

\* mutant of RowsAfterRefresh: the current row survives the removal of its row
RowsAfterRefresh_stale(r, n) == {r}

\* the current row after refresh_table set the row count to n: a row that
\* still exists stays current, otherwise Qt picks the new current row
RowsAfterRefresh(r, n) == IF r < n THEN {r} ELSE -1..(n - 1)

Project == [app_name |-> app_name, hotkey |-> hotkey, actions |-> actions]

\* the user selects a row of the table
select_row(r) ==
    /\ r \in 0..(table_rows - 1)
    /\ r # row
    /\ row' = r
    /\ UNCHANGED <<app_name, hotkey, actions, table_rows, json_file, ahk_file, msg, saved,
                   picked, fs, codec>>

\* the user types into the application name field
set_app_name(name) ==
    /\ name # app_name
    /\ app_name' = name
    /\ msg' = "none"
    /\ picked' = <<>>
    /\ UNCHANGED <<hotkey, actions, row, table_rows, json_file, ahk_file, saved, fs, codec>>

\* the user types into the hotkey field
set_hotkey(key) ==
    /\ key # hotkey
    /\ hotkey' = key
    /\ msg' = "none"
    /\ picked' = <<>>
    /\ UNCHANGED <<app_name, actions, row, table_rows, json_file, ahk_file, saved, fs, codec>>

add_action(a) ==
    /\ Len(actions) < MaxActions
    /\ actions' = Append(actions, a)
    /\ table_rows' = Len(actions')
    /\ row' \in RowsAfterRefresh(row, table_rows')
    /\ msg' = "none"
    /\ picked' = <<>>
    /\ UNCHANGED <<app_name, hotkey, json_file, ahk_file, saved, fs, codec>>

edit_action(a) ==
    /\ IF row < 0 \/ row >= Len(actions)
       THEN /\ msg' = "Select action"
            /\ UNCHANGED <<actions, row, table_rows>>
       ELSE /\ actions' = [actions EXCEPT ![row + 1] = a]
            /\ table_rows' = Len(actions')
            /\ row' \in RowsAfterRefresh(row, table_rows')
            /\ msg' = "none"
    /\ picked' = <<>>
    /\ UNCHANGED <<app_name, hotkey, json_file, ahk_file, saved, fs, codec>>

remove_action ==
    /\ IF row < 0 \/ row >= Len(actions)
       THEN /\ msg' = "Select action"
            /\ UNCHANGED <<actions, row, table_rows>>
       ELSE /\ actions' = SubSeq(actions, 1, row) \o SubSeq(actions, row + 2, Len(actions))
            /\ table_rows' = Len(actions')
            /\ row' \in RowsAfterRefresh(row, table_rows')
            /\ msg' = "none"
    /\ picked' = <<>>
    /\ UNCHANGED <<app_name, hotkey, json_file, ahk_file, saved, fs, codec>>

\* actions[i], actions[j] = actions[j], actions[i] for 0-based i, j
Swapped(seq, i, j) == [seq EXCEPT ![i + 1] = seq[j + 1], ![j + 1] = seq[i + 1]]

move_action_up ==
    /\ IF row > 0
       THEN IF row >= Len(actions)
            THEN \* self.actions[row] on the right-hand side raises
                 /\ msg' = "IndexError"
                 /\ UNCHANGED <<actions, row, table_rows>>
            ELSE /\ actions' = Swapped(actions, row - 1, row)
                 /\ table_rows' = Len(actions')
                 /\ row' = row - 1
                 /\ msg' = "none"
       ELSE /\ msg' = "none"
            /\ UNCHANGED <<actions, row, table_rows>>
    /\ picked' = <<>>
    /\ UNCHANGED <<app_name, hotkey, json_file, ahk_file, saved, fs, codec>>

move_action_down ==
    /\ IF 0 <= row /\ row < Len(actions) - 1
       THEN /\ actions' = Swapped(actions, row + 1, row)
            /\ table_rows' = Len(actions')
            /\ row' = row + 1
            /\ msg' = "none"
       ELSE /\ msg' = "none"
            /\ UNCHANGED <<actions, row, table_rows>>
    /\ picked' = <<>>
    /\ UNCHANGED <<app_name, hotkey, json_file, ahk_file, saved, fs, codec>>

\* load_file with a path that ends neither in .json nor in .ahk
load_file_unsupported ==
    /\ msg' = "Unsupported"
    /\ picked' = <<>>
    /\ UNCHANGED <<app_name, hotkey, actions, row, table_rows, json_file, ahk_file, saved,
                   fs, codec>>

EditList ==
    \/ \E r \in 0..MaxActions : select_row(r)
    \/ \E a \in DialogActions : add_action(a)
    \/ \E a \in DialogActions : edit_action(a)
    \/ remove_action
    \/ move_action_up
    \/ move_action_down

Edit ==
    \/ EditList
    \/ \E name \in AppNames : set_app_name(name)
    \/ \E key \in Hotkeys : set_hotkey(key)
    \/ load_file_unsupported

(***************************************************************************)
(* MainWindow.save_project and the JSON branch of MainWindow.load_file.    *)
(* A JSON object is a function from its keys, a JSON array a sequence.     *)
(***************************************************************************)
\* mutant of action_record: the record is written without the Run options
action_record_old_schema(a) ==
    [type |-> ActionTypeValue(a.type), name |-> a.name, x |-> a.x, y |-> a.y, ms |-> a.ms,
     command |-> a.command]

\* asdict(a) as json.dump writes it: the ActionType member by its value
action_record(a) ==
    [type |-> ActionTypeValue(a.type), name |-> a.name, x |-> a.x, y |-> a.y, ms |-> a.ms,
     command |-> a.command, mode |-> a.mode, params |-> a.params]

project_document ==
    [app_name |-> app_name, hotkey |-> hotkey,
     actions |-> [i \in DOMAIN actions |-> action_record(actions[i])]]

save_project ==
    /\ json_file' = <<project_document>>
    /\ saved' = <<Project>>
    /\ msg' = "Saved"
    /\ picked' = <<>>
    /\ UNCHANGED <<app_name, hotkey, actions, row, table_rows, ahk_file, fs, codec>>

\* d.get(key, default)
dict_get(d, key, default) == IF key \in DOMAIN d THEN d[key] ELSE default

\* mutant of action_of_record: every absent field defaults to the empty value
\* (name and mode to '' instead of the type value and 'Normal')
action_of_record_empty_defaults(ad) ==
    Action(ActionTypeOf(ad["type"]),
           dict_get(ad, "name", <<>>),
           dict_get(ad, "x", 0),
           dict_get(ad, "y", 0),
           dict_get(ad, "ms", 0),
           dict_get(ad, "command", <<>>),
           dict_get(ad, "mode", <<>>),
           dict_get(ad, "params", <<>>))

\* Action(type=ActionType(ad['type']), name=ad.get('name', ad.get('type', 'Action')), ...)
action_of_record(ad) ==
    Action(ActionTypeOf(ad["type"]),
           dict_get(ad, "name", dict_get(ad, "type", <<"A", "c", "t", "i", "o", "n">>)),
           dict_get(ad, "x", 0),
           dict_get(ad, "y", 0),
           dict_get(ad, "ms", 0),
           dict_get(ad, "command", <<>>),
           dict_get(ad, "mode", ModeNormal),
           dict_get(ad, "params", <<>>))

\* the for loop over data.get('actions', []): the Actions appended before the
\* loop ended, and the exception that ended it ("none" when it ran through)
RECURSIVE load_records(_, _)
load_records(records, acc) ==
    IF records = <<>> THEN [acts |-> acc, raised |-> "none"]
    ELSE LET ad == Head(records)
         IN  IF "type" \notin DOMAIN ad THEN [acts |-> acc, raised |-> "KeyError"]
             ELSE IF ~IsActionTypeValue(ad["type"]) THEN [acts |-> acc, raised |-> "ValueError"]
             ELSE load_records(Tail(records), Append(acc, action_of_record(ad)))

load_file_json(data) ==
    LET loop == load_records(dict_get(data, "actions", <<>>), <<>>)
    IN  /\ app_name' = dict_get(data, "app_name", <<"M", "y", "S", "c", "r", "i", "p", "t">>)
        /\ hotkey' = dict_get(data, "hotkey", <<"^", "!", "z">>)
        /\ actions' = loop.acts
        /\ IF loop.raised = "none"
           THEN /\ table_rows' = Len(actions')
                /\ row' \in RowsAfterRefresh(row, table_rows')
                /\ msg' = "Loaded"
           ELSE /\ msg' = loop.raised
                /\ UNCHANGED <<row, table_rows>>
        /\ picked' = <<data>>
        /\ UNCHANGED <<json_file, ahk_file, saved, fs, codec>>

\* project documents that were not written by save_project: records of an
\* older schema, records without 'type', records of an unknown kind
FullRecord ==
    [type |-> <<"C", "l", "i", "c", "k">>, name |-> <<"a">>, x |-> 1, y |-> 2, ms |-> 3,
     command |-> <<"c">>, mode |-> ModeMinimized, params |-> <<"p">>]

Restrict(f, keys) == [k \in keys |-> f[k]]

\* FullRecord without any subset of the fields other than 'type'
PartialRecords == { Restrict(FullRecord, keys \cup {"type"}) : keys \in SUBSET (DOMAIN FullRecord) }

HandRecords ==
    { [type |-> <<"R", "u", "n">>, name |-> <<"r">>, x |-> 7, y |-> 8, ms |-> 9,
       command |-> <<"c", " ", "d">>, mode |-> ModeHidden, params |-> <<"p", ";", "q">>],
      [type |-> <<"S", "l", "e", "e", "p">>],
      [type |-> <<"K", "e", "y", "P", "r", "e", "s", "s">>, name |-> <<"k">>, x |-> 0, y |-> 0,
       ms |-> 0, command |-> <<"{", "F", "5", "}">>],
      [type |-> <<"W", "a", "i", "t", "W", "i", "n", "d", "o", "w">>, command |-> <<"w">>],
      [name |-> <<"n">>, x |-> 1],
      [type |-> <<"F", "o", "o">>, name |-> <<"f">>] }

SeqsUpTo(S, n) == UNION {[1..k -> S] : k \in 0..n}

HandRecordLists == SeqsUpTo(HandRecords, MaxRecords) \cup { <<r>> : r \in PartialRecords }

HandDocuments ==
    { [app_name |-> <<"X">>, hotkey |-> <<"F", "1">>, actions |-> recs] : recs \in HandRecordLists }
    \cup { [actions |-> <<r>>] : r \in PartialRecords }
    \cup { [app_name |-> <<"X">>] }

\* load_file on the file save_project wrote
LoadSavedProject == \E i \in DOMAIN json_file : load_file_json(json_file[i])

\* load_file on a document that was written by hand or by an older version
LoadHandDocument == \E data \in HandDocuments : load_file_json(data)

Init ==
    /\ InitWindow
    /\ fs = {}
    /\ codec = CodecIdle

\* editing a project, saving it and loading it back
Next ==
    \/ Edit
    \/ save_project
    \/ LoadSavedProject

Spec == Init /\ [][Next]_vars

\* editing a project: nothing is opened, saved or exported
SpecEdit == Init /\ [][Edit]_vars

\* opening project documents that save_project did not write
NextDocuments ==
    \/ LoadHandDocument
    \/ \E r \in 0..MaxRecords : select_row(r)

SpecDocuments == Init /\ [][NextDocuments]_vars

(***************************************************************************)
(* MainWindow.export_ahk and the .ahk branch of MainWindow.load_file.      *)
(* A file is its path and its text.                                        *)
(***************************************************************************)
\* mutant of hotkey_or_default: the text is used as typed, the fallback only
\* for the empty text
hotkey_or_default_untrimmed(s) == IF s # <<>> THEN s ELSE <<"F", "9">>

\* s.strip() or "F9"
hotkey_or_default(s) == IF Strip(s) # <<>> THEN Strip(s) ELSE <<"F", "9">>

\* for l in a.to_ahk_lines(): lines.append("    " + l)
RECURSIVE indented(_)
indented(ls) ==
    IF ls = <<>> THEN <<>> ELSE << <<" ", " ", " ", " ">> \o Head(ls) >> \o indented(Tail(ls))

\* mutant of action_lines: the commands are written before the comment line
RECURSIVE action_lines_comment_last(_)
action_lines_comment_last(acts) ==
    IF acts = <<>> THEN <<>>
    ELSE indented(to_ahk_lines(Head(acts), exists(Head(acts).command)))
            \o <<to_comment(Head(acts))>>
            \o action_lines_comment_last(Tail(acts))

\* the loop over self.actions: the comment line, then the indented commands
RECURSIVE action_lines(_)
action_lines(acts) ==
    IF acts = <<>> THEN <<>>
    ELSE <<to_comment(Head(acts))>>
            \o indented(to_ahk_lines(Head(acts), exists(Head(acts).command)))
            \o action_lines(Tail(acts))

header_lines(name, key) ==
    << <<";", " ", "G", "e", "n", "e", "r", "a", "t", "e", "d", " ", "b", "y", " ", "A", "H", "K",
         " ", "S", "c", "r", "i", "p", "t", " ", "B", "u", "i", "l", "d", "e", "r", " ", "-", " ">>
            \o name,
       <<";", " ", "K", "e", "e", "p", " ", "t", "h", "e", " ", "A", "C", "T", "I", "O", "N", " ",
         "c", "o", "m", "m", "e", "n", "t", "s", " ", "i", "f", " ", "y", "o", "u", " ", "w", "a",
         "n", "t", " ", "t", "o", " ", "r", "e", "l", "o", "a", "d", " ", "t", "h", "i", "s", " ",
         "s", "c", "r", "i", "p", "t", " ", "i", "n", "t", "o", " ", "t", "h", "e", " ", "b", "u",
         "i", "l", "d", "e", "r", ".">>,
       <<"C", "o", "o", "r", "d", "M", "o", "d", "e", ",", " ", "M", "o", "u", "s", "e", ",", " ",
         "S", "c", "r", "e", "e", "n">>,
       <<"S", "e", "t", "T", "i", "t", "l", "e", "M", "a", "t", "c", "h", "M", "o", "d", "e", ",",
         " ", "2">>,
       <<>>,
       <<";", " ", "H", "o", "t", "k", "e", "y", " ", "t", "o", " ", "r", "u", "n", " ", "t", "h",
         "e", " ", "s", "e", "q", "u", "e", "n", "c", "e", ":", " ">> \o key,
       key \o <<":", ":">> >>

export_lines ==
    header_lines(app_name, hotkey_or_default(hotkey))
        \o action_lines(actions)
        \o << <<"r", "e", "t", "u", "r", "n">> >>

\* the path the save dialog proposes: <application name>.ahk
export_path == app_name \o <<".", "a", "h", "k">>

export_ahk ==
    /\ ahk_file' = << [path |-> export_path, text |-> Join(export_lines, "\n")] >>
    /\ saved' = <<Project>>
    /\ msg' = "Exported"
    /\ picked' = <<>>
    /\ UNCHANGED <<app_name, hotkey, actions, row, table_rows, json_file, fs, codec>>

\* index of the last element of s that is in cs, 0 when there is none
LastIndexIn(s, cs) ==
    IF \E i \in DOMAIN s : s[i] \in cs
    THEN CHOOSE i \in DOMAIN s : s[i] \in cs /\ \A j \in (i + 1)..Len(s) : s[j] \notin cs
    ELSE 0

\* os.path.basename(path)
basename(path) == SubSeq(path, LastIndexIn(path, {"/", "\\"}) + 1, Len(path))

\* os.path.splitext(name)[0]: the extension starts at the last dot, unless
\* only dots precede it
splitext_root(name) ==
    LET dot == LastIndexIn(name, {"."})
    IN  IF dot > 0 /\ \E i \in 1..(dot - 1) : name[i] # "."
        THEN SubSeq(name, 1, dot - 1)
        ELSE name

\* mutant of load_file_ahk: the decoded Actions are added to the list
load_file_ahk_keeping(file) ==
    /\ actions' = actions \o import_text(file.text)
    /\ app_name' = splitext_root(basename(file.path))
    /\ table_rows' = Len(actions')
    /\ row' \in RowsAfterRefresh(row, table_rows')
    /\ msg' = "Loaded .ahk"
    /\ picked' = <<file>>
    /\ UNCHANGED <<hotkey, json_file, ahk_file, saved, fs, codec>>

load_file_ahk(file) ==
    /\ actions' = import_text(file.text)
    /\ app_name' = splitext_root(basename(file.path))
    /\ table_rows' = Len(actions')
    /\ row' \in RowsAfterRefresh(row, table_rows')
    /\ msg' = "Loaded .ahk"
    /\ picked' = <<file>>
    /\ UNCHANGED <<hotkey, json_file, ahk_file, saved, fs, codec>>

\* load_file on the script export_ahk wrote
LoadExportedScript == \E i \in DOMAIN ahk_file : load_file_ahk(ahk_file[i])

InitScript ==
    /\ InitWindow
    /\ fs = { <<"c", " ", "d">> }
    /\ codec = CodecIdle

\* editing a project, exporting it and importing the exported script
NextScript ==
    \/ EditList
    \/ export_ahk
    \/ LoadExportedScript

SpecScript == InitScript /\ [][NextScript]_vars

\* lines of scripts that were edited by hand
HandLines ==
    { <<";", "A", "C", "T", "I", "O", "N", ":", "C", "l", "i", "c", "k", ";", "N", "a", "m", "e",
        "=", "a", ";", "X", "=", "1", ";", "Y", "=", "2">>,
      <<";", "A", "C", "T", "I", "O", "N", ":", "C", "l", "i", "c", "k", ";", "N", "a", "m", "e",
        "=", "b", ";", "X", "=", "q", ";", "Y", "=", "2">>,
      <<";", "A", "C", "T", "I", "O", "N", ":", "S", "l", "e", "e", "p", ";", "N", "a", "m", "e",
        ";", "M", "S", "=", "5">>,
      <<";", "A", "C", "T", "I", "O", "N", ":", "F", "o", "o", ";", "N", "a", "m", "e", "=", "f">>,
      <<" ", ";", "A", "C", "T", "I", "O", "N", ":", "K", "e", "y", "P", "r", "e", "s", "s", ";",
        "K", "e", "y", "=", "x", " ">>,
      <<" ", " ", " ", " ", "S", "l", "e", "e", "p", ",", " ", "5">> }

HandScripts ==
    { [path |-> <<"m", ".", "a", "h", "k">>, text |-> Join(ls, "\n")] :
        ls \in SeqsUpTo(HandLines, MaxRecords) }

\* load_file on a script that was edited by hand
LoadHandScript == \E file \in HandScripts : load_file_ahk(file)

\* opening scripts that export_ahk did not write
NextImport ==
    \/ LoadHandScript
    \/ \E key \in Hotkeys : set_hotkey(key)
    \/ \E r \in 0..MaxRecords : select_row(r)

SpecImport == Init /\ [][NextImport]_vars

\* what the user can type into the hotkey field: texts with blanks and tabs
\* around or instead of the key
HotkeyChars == {"a", " ", "\t"}

HotkeyTexts == TextsOver(HotkeyChars, MaxText) \cup { <<"^", "!", "z">> }

\* typing a hotkey and an application name, and exporting
NextHotkey ==
    \/ \E key \in HotkeyTexts : set_hotkey(key)
    \/ \E name \in AppNames : set_app_name(name)
    \/ export_ahk

SpecHotkey == Init /\ [][NextHotkey]_vars

\* paths the open dialog can return for a script: in the working directory,
\* in a directory and with a dot in the name, a name that is only '.ahk'
OpenedPaths ==
    { <<"m", ".", "a", "h", "k">>,
      <<"d", "/", "a", ".", "b", ".", "a", "h", "k">>,
      <<"d", "/", ".", "a", "h", "k">> }

\* scripts of no line and of one line, under each of the paths
OpenedScripts ==
    { [path |-> p, text |-> t] : p \in OpenedPaths, t \in { <<>> } \cup HandLines }

\* documents of no record, of one record and of two records; a document
\* without 'actions' and 'hotkey'
OpenedDocuments ==
    { [app_name |-> <<"X">>, hotkey |-> <<"F", "1">>, actions |-> recs] :
        recs \in { <<>> } \cup { <<r>> : r \in HandRecords }
                 \cup { <<r, FullRecord>> : r \in HandRecords } }
    \cup { [app_name |-> <<"X">>] }

LoadOpenedScript == \E file \in OpenedScripts : load_file_ahk(file)

LoadOpenedDocument == \E data \in OpenedDocuments : load_file_json(data)

\* building a project and opening a script or a document over it
NextOpen ==
    \/ \E a \in DialogActions : add_action(a)
    \/ \E key \in Hotkeys : set_hotkey(key)
    \/ \E r \in 0..MaxActions : select_row(r)
    \/ LoadOpenedScript
    \/ LoadOpenedDocument

SpecOpen == Init /\ [][NextOpen]_vars

(***************************************************************************)
(* Properties of the codec (checked under SpecCodec).                      *)
(***************************************************************************)
NoSemicolon(a) ==
    ~Contains(a.name, ";") /\ ~Contains(a.command, ";") /\ ~Contains(a.params, ";")

\* kind, name and the fields that are meaningful for the kind
SameRelevant(b, a) ==
    /\ b.type = a.type
    /\ b.name = a.name
    /\ a.type = "CLICK" => b.x = a.x /\ b.y = a.y
    /\ a.type = "SLEEP" => b.ms = a.ms
    /\ a.type = "RUN" => b.command = a.command /\ b.params = a.params /\ b.mode = a.mode
    /\ a.type \in {"KEYPRESS", "WAITWINDOW"} => b.command = a.command

CodecDecoded == codec.pc \in {"decoded", "reencoded", "redecoded", "done"}

\* C1: comment round-trip.  For every Action whose name, command and params
\* contain no ';', the importer's line decoder applied to to_comment(a)
\* appends an Action equal to a in kind, name and every kind-relevant field.
C1_RoundTrip ==
    (CodecDecoded /\ NoSemicolon(codec.a)) =>
        /\ codec.decoded.outcome = "appended"
        /\ SameRelevant(codec.decoded.acts[1], codec.a)

StartModes == {ModeNormal, ModeMinimized, ModeMaximized, ModeHidden}

Quoted(cmd) == <<"\"">> \o cmd \o <<"\"">>

\* the Run line with the command token tok
RunLineWith(a, tok) ==
    <<"R", "u", "n", ",", " ">> \o tok \o param_text(a)
        \o (IF mode_map(a.mode) # <<>> THEN <<",", " ", ",", " ">> \o mode_map(a.mode) ELSE <<>>)

CodecRunDone == codec.pc = "done" /\ codec.a.type = "RUN"

\* C2 as stated: the command of a Run Action is wrapped in double quotes
\* exactly when it exists AND contains a space AND contains no double quote;
\* in every other case it is emitted verbatim.
C2_QuoteIffExistsSpaceNoQuote ==
    CodecRunDone =>
        LET cmd == codec.a.command
        IN  codec.lines =
                << RunLineWith(codec.a,
                               IF exists(cmd) /\ Contains(cmd, " ") /\ ~Contains(cmd, "\"")
                               THEN Quoted(cmd) ELSE cmd) >>

\* C2 as amended: the command of a Run Action is wrapped in double quotes
\* exactly when it exists AND (it contains a space OR it contains no double
\* quote); otherwise it is emitted verbatim.  An existing path without
\* spaces and without quotes is quoted; a name that does not exist is not.
C2_QuoteIffExistsSpaceOrNoQuote ==
    CodecRunDone =>
        LET cmd == codec.a.command
        IN  /\ Len(codec.lines) = 1
            /\ (exists(cmd) /\ (Contains(cmd, " ") \/ ~Contains(cmd, "\"")))
                    => codec.lines[1] = RunLineWith(codec.a, Quoted(cmd))
            /\ ~exists(cmd) => codec.lines[1] = RunLineWith(codec.a, cmd)
            /\ (exists(cmd) /\ ~Contains(cmd, " ") /\ Contains(cmd, "\""))
                    => codec.lines[1] = RunLineWith(codec.a, cmd)

\* C2 witness: an existing command without a space and without a quote was
\* given to to_ahk_lines and came out quoted.
C2_Witness ==
    /\ CodecRunDone
    /\ exists(codec.a.command)
    /\ ~Contains(codec.a.command, " ")
    /\ ~Contains(codec.a.command, "\"")
    /\ codec.lines = << RunLineWith(codec.a, Quoted(codec.a.command)) >>

CodecRedecoded == codec.pc \in {"redecoded", "done"}

LossyCase(a) == a.type = "RUN" /\ Contains(a.params, ";")

LossyHolds ==
    /\ codec.decoded.outcome = "appended"
    /\ codec.decoded.acts[1] =
            Action("RUN", codec.a.name, 0, 0, 0, codec.a.command, codec.a.mode,
                   Replace(codec.a.params, ";", ","))
    /\ codec.comment2 = codec.comment
    /\ codec.decoded2 = codec.decoded

\* C6 as stated: for every Run Action whose params contains ';', decoding its
\* comment line gives a Run Action with every ';' of params replaced by ','
\* and name, command and mode unchanged; encoding the decoded Action gives
\* the same line and decoding that gives the same Action.
C6_LossyEscape == (CodecRedecoded /\ LossyCase(codec.a)) => LossyHolds

\* C6 as amended: the same, for a Run Action whose params contains ';', whose
\* name and command contain no ';' and whose mode is one of the four start modes.
C6_LossyEscapeCleanNameCmd ==
    (/\ CodecRedecoded
     /\ LossyCase(codec.a)
     /\ ~Contains(codec.a.name, ";")
     /\ ~Contains(codec.a.command, ";")
     /\ codec.a.mode \in StartModes) => LossyHolds

\* C6 witness: a Run Action with a ';' in params (and none in name and
\* command) was encoded, decoded, encoded and decoded again, and the decoded
\* params differ from the original.
C6_Witness ==
    /\ CodecRedecoded
    /\ LossyCase(codec.a)
    /\ ~Contains(codec.a.name, ";")
    /\ ~Contains(codec.a.command, ";")
    /\ codec.a.mode \in StartModes
    /\ codec.decoded.acts[1].params # codec.a.params
    /\ codec.decoded2.acts[1].params = codec.decoded.acts[1].params

\* C8: mode mapping.  The one line of a Run Action is "Run, <command><params>"
\* followed by ", , Min" for Minimized, ", , Max" for Maximized, ", , Hide"
\* for Hidden, and by nothing at all for Normal and for any mode outside the table.
C8_ModeMapping ==
    CodecRunDone =>
        LET a == codec.a
            base == <<"R", "u", "n", ",", " ">>
                        \o cmd_wrapped(a.command, exists(a.command)) \o param_text(a)
        IN  /\ Len(codec.lines) = 1
            /\ a.mode = ModeMinimized =>
                    codec.lines[1] = base \o <<",", " ", ",", " ", "M", "i", "n">>
            /\ a.mode = ModeMaximized =>
                    codec.lines[1] = base \o <<",", " ", ",", " ", "M", "a", "x">>
            /\ a.mode = ModeHidden =>
                    codec.lines[1] = base \o <<",", " ", ",", " ", "H", "i", "d", "e">>
            /\ a.mode \notin {ModeMinimized, ModeMaximized, ModeHidden} =>
                    codec.lines[1] = base

\* C8 witness: a Run Action with a mode outside the table went through
\* to_ahk_lines and its line carries no launch-mode argument.
C8_Witness ==
    /\ CodecRunDone
    /\ codec.a.mode \notin StartModes
    /\ codec.a.params = <<>>
    /\ codec.lines = << <<"R", "u", "n", ",", " ">> \o codec.a.command >>

(***************************************************************************)
(* Properties of the JSON persistence.                                     *)
(***************************************************************************)
\* C9: project persistence preserves order and content (checked under Spec).
\* Whenever load_file has read the document save_project wrote, the load
\* succeeded and the application name, the hotkey and the action list (length,
\* order, every field of every Action) are those of the project that was saved.
C9_SaveLoadRoundTrip ==
    picked # <<>> =>
        /\ picked = json_file
        /\ msg = "Loaded"
        /\ Project = saved[1]

\* C9 witness: a saved project of two different Actions, one of them a Run
\* with every field set, with an edited name and hotkey, has been loaded back.
C9_Witness ==
    /\ picked # <<>>
    /\ picked = json_file
    /\ msg = "Loaded"
    /\ Len(actions) = 2
    /\ actions[1].type = "RUN"
    /\ actions[1].params = <<"p", ";", "q">>
    /\ actions[2].type = "CLICK"
    /\ app_name = <<"D", "e", "m", "o">>
    /\ hotkey = <<" ">>

PickedRecords == dict_get(picked[1], "actions", <<>>)

HasType(ad) == "type" \in DOMAIN ad

HasKnownType(ad) == HasType(ad) /\ IsActionTypeValue(ad["type"])

\* C10: forward compatibility (checked under SpecDocuments).  Loading a
\* document whose records all carry a 'type' of the enumeration succeeds, and
\* in each loaded Action an absent field has its default (mode 'Normal',
\* params '', command '', x = y = ms = 0, name = the record's type value)
\* and a present field has the record's value.
C10_AbsentFieldsDefault ==
    (picked # <<>> /\ \A i \in DOMAIN PickedRecords : HasKnownType(PickedRecords[i])) =>
        /\ msg = "Loaded"
        /\ Len(actions) = Len(PickedRecords)
        /\ \A i \in DOMAIN PickedRecords :
            LET ad == PickedRecords[i]
                a == actions[i]
                has(k) == k \in DOMAIN ad
            IN  /\ ActionTypeValue(a.type) = ad["type"]
                /\ a.name = IF has("name") THEN ad["name"] ELSE ad["type"]
                /\ a.x = IF has("x") THEN ad["x"] ELSE 0
                /\ a.y = IF has("y") THEN ad["y"] ELSE 0
                /\ a.ms = IF has("ms") THEN ad["ms"] ELSE 0
                /\ a.command = IF has("command") THEN ad["command"] ELSE <<>>
                /\ a.mode = IF has("mode") THEN ad["mode"] ELSE ModeNormal
                /\ a.params = IF has("params") THEN ad["params"] ELSE <<>>

\* C10 witness: a document with a record that carries nothing but its type
\* and a record of the old schema (no mode, no params) has been loaded.
C10_Witness ==
    /\ picked # <<>>
    /\ msg = "Loaded"
    /\ Len(PickedRecords) = 2
    /\ DOMAIN PickedRecords[1] = {"type"}
    /\ DOMAIN PickedRecords[2] = {"type", "name", "x", "y", "ms", "command"}
    /\ actions[1].name = <<"S", "l", "e", "e", "p">>
    /\ actions[2].mode = ModeNormal

\* C3: a missing discriminator aborts the whole load with no partial project
\* (checked under SpecDocuments).  A load_file that ends in the KeyError of a
\* record without 'type' leaves the application name, the hotkey and the
\* action list as they were before it.
C3_NoPartialProject ==
    [][msg' = "KeyError" => UNCHANGED <<app_name, hotkey, actions>>]_vars

\* the Actions of the records of a known kind, in order
RECURSIVE ActionsOfKnown(_)
ActionsOfKnown(records) ==
    IF records = <<>> THEN <<>>
    ELSE IF HasKnownType(Head(records))
         THEN <<action_of_record(Head(records))>> \o ActionsOfKnown(Tail(records))
         ELSE ActionsOfKnown(Tail(records))

\* C4: an unknown action kind is local (checked under SpecDocuments for the
\* JSON path).  Loading a document whose records all carry a 'type' does not
\* abort: the records of an unknown kind are dropped and all the others,
\* before and after them, are loaded in order.
C4_UnknownKindIsLocal ==
    (picked # <<>> /\ \A i \in DOMAIN PickedRecords : HasType(PickedRecords[i])) =>
        /\ msg = "Loaded"
        /\ actions = ActionsOfKnown(PickedRecords)

(***************************************************************************)
(* Properties of the export and of the import.                             *)
(***************************************************************************)
ExportedLines == Split(ahk_file[1].text, "\n")

FourSpaces(l) == <<" ", " ", " ", " ">> \o l

\* the hotkey block of acts: per Action its comment line, unindented, then
\* each of its command lines behind four spaces
RECURSIVE ExpectedBlock(_)
ExpectedBlock(acts) ==
    IF acts = <<>> THEN <<>>
    ELSE LET a == Head(acts)
             cmds == to_ahk_lines(a, exists(a.command))
         IN  <<to_comment(a)>> \o [i \in DOMAIN cmds |-> FourSpaces(cmds[i])]
                \o ExpectedBlock(Tail(acts))

ExampleActions ==
    << Action("CLICK", <<"S", "t", "a", "r", "t">>, 100, 200, 0, <<>>, ModeNormal, <<>>),
       Action("SLEEP", <<"S", "l", "e", "e", "p">>, 0, 0, 500, <<>>, ModeNormal, <<>>) >>

ExampleBlock ==
    << <<";", "A", "C", "T", "I", "O", "N", ":", "C", "l", "i", "c", "k", ";", "N", "a", "m", "e",
         "=", "S", "t", "a", "r", "t", ";", "X", "=", "1", "0", "0", ";", "Y", "=", "2", "0", "0">>,
       <<" ", " ", " ", " ", "M", "o", "u", "s", "e", "M", "o", "v", "e", ",", " ", "1", "0", "0",
         ",", " ", "2", "0", "0">>,
       <<" ", " ", " ", " ", "C", "l", "i", "c", "k">>,
       <<";", "A", "C", "T", "I", "O", "N", ":", "S", "l", "e", "e", "p", ";", "N", "a", "m", "e",
         "=", "S", "l", "e", "e", "p", ";", "M", "S", "=", "5", "0", "0">>,
       <<" ", " ", " ", " ", "S", "l", "e", "e", "p", ",", " ", "5", "0", "0">>,
       <<"r", "e", "t", "u", "r", "n">> >>

\* C7: export structure (checked under SpecScript).  In the exported script
\* the line '<hotkey>::' is followed by, for each Action of the exported
\* project in list order, its comment line (unindented) and then each of its
\* command lines behind exactly four spaces, and by a final 'return'; the
\* project [Click(Start,100,200), Sleep(500)] gives exactly the six lines of
\* the example; and importing the exported script recovers as many Actions,
\* of the same kinds in the same order, the Click and Sleep Actions equal to
\* the exported ones.
C7_ExportStructure ==
    /\ ahk_file # <<>> =>
        LET ls == ExportedLines
            acts == saved[1].actions
        IN  /\ Len(ls) >= 8
            /\ ls[7] = hotkey_or_default(saved[1].hotkey) \o <<":", ":">>
            /\ SubSeq(ls, 8, Len(ls)) = ExpectedBlock(acts) \o << <<"r", "e", "t", "u", "r", "n">> >>
            /\ acts = ExampleActions => SubSeq(ls, 8, Len(ls)) = ExampleBlock
    /\ picked # <<>> =>
        /\ picked = ahk_file
        /\ msg = "Loaded .ahk"
        /\ Len(actions) = Len(saved[1].actions)
        /\ \A i \in DOMAIN actions :
            /\ actions[i].type = saved[1].actions[i].type
            /\ actions[i].type \in {"CLICK", "SLEEP"} => actions[i] = saved[1].actions[i]

\* C7 witness: the example project was exported, the list was emptied, and
\* the import of the exported script brought the two Actions back.
C7_Witness ==
    /\ picked # <<>>
    /\ picked = ahk_file
    /\ saved[1].actions = ExampleActions
    /\ SubSeq(ExportedLines, 8, Len(ExportedLines)) = ExampleBlock
    /\ actions = ExampleActions

PickedLines == Split(picked[1].text, "\n")

LineTokens(raw) == Split(SubSeq(Strip(raw), Len(MARKER) + 1, Len(Strip(raw))), ";")

LineKind(raw) == LineTokens(raw)[1]

\* the tokens 'key=...' of the line
KeyTokens(raw, key) ==
    { i \in 2..Len(LineTokens(raw)) : StartsWith(LineTokens(raw)[i], key \o <<"=">>) }

HasKey(raw, key) == KeyTokens(raw, key) # {}

\* the value of the last token 'key=value'
LastValue(raw, key) ==
    LET i == CHOOSE i \in KeyTokens(raw, key) : \A j \in KeyTokens(raw, key) : j <= i
    IN  SubSeq(LineTokens(raw)[i], Len(key) + 2, Len(LineTokens(raw)[i]))

TextOf(raw, key, default) == IF HasKey(raw, key) THEN LastValue(raw, key) ELSE default

IsInt(raw, key) == HasKey(raw, key) => ParseInt(LastValue(raw, key)).ok

IntOf(raw, key) == IF HasKey(raw, key) THEN ParseInt(LastValue(raw, key)).val ELSE 0

\* a marker line of one of the five kinds whose numeric values, where the
\* kind reads them, are integers; tokens without '=' do not count
WellFormed(raw) ==
    /\ StartsWith(Strip(raw), MARKER)
    /\ IsActionTypeValue(LineKind(raw))
    /\ ActionTypeOf(LineKind(raw)) = "CLICK" => IsInt(raw, <<"X">>) /\ IsInt(raw, <<"Y">>)
    /\ ActionTypeOf(LineKind(raw)) = "SLEEP" => IsInt(raw, <<"M", "S">>)

\* well-formed, and every token after the kind is a key=value pair
WellFormedStrict(raw) ==
    /\ WellFormed(raw)
    /\ \A i \in 2..Len(LineTokens(raw)) : Contains(LineTokens(raw)[i], "=")

\* the Action a well-formed line stands for
ExpectedAction(raw) ==
    LET t == ActionTypeOf(LineKind(raw))
        name == TextOf(raw, <<"N", "a", "m", "e">>, LineKind(raw))
    IN  CASE t = "CLICK" ->
                Action(t, name, IntOf(raw, <<"X">>), IntOf(raw, <<"Y">>), 0, <<>>, ModeNormal, <<>>)
          [] t = "SLEEP" ->
                Action(t, name, 0, 0, IntOf(raw, <<"M", "S">>), <<>>, ModeNormal, <<>>)
          [] t = "RUN" ->
                Action(t, name, 0, 0, 0, TextOf(raw, <<"C", "m", "d">>, <<>>),
                       TextOf(raw, <<"M", "o", "d", "e">>, ModeNormal),
                       TextOf(raw, <<"P", "a", "r", "a", "m", "s">>, <<>>))
          [] t = "KEYPRESS" ->
                Action(t, name, 0, 0, 0, TextOf(raw, <<"K", "e", "y">>, <<>>), ModeNormal, <<>>)
          [] t = "WAITWINDOW" ->
                Action(t, name, 0, 0, 0, TextOf(raw, <<"T", "i", "t", "l", "e">>, <<>>),
                       ModeNormal, <<>>)

RECURSIVE Recovered(_)
Recovered(raws) ==
    IF raws = <<>> THEN <<>>
    ELSE (IF WellFormed(Head(raws)) THEN <<ExpectedAction(Head(raws))>> ELSE <<>>)
            \o Recovered(Tail(raws))

RECURSIVE RecoveredStrict(_)
RecoveredStrict(raws) ==
    IF raws = <<>> THEN <<>>
    ELSE (IF WellFormedStrict(Head(raws)) THEN <<ExpectedAction(Head(raws))>> ELSE <<>>)
            \o RecoveredStrict(Tail(raws))

\* C5 as stated: importer tolerance (checked under SpecImport).  The import
\* of any script ends normally and recovers exactly the well-formed marker
\* lines in file order, where a line with a token without '=' or with a
\* non-numeric X/Y/MS value is malformed and yields no Action.
C5_StrictLinesRecovered ==
    picked # <<>> =>
        /\ msg = "Loaded .ahk"
        /\ actions = RecoveredStrict(PickedLines)

\* C5 as amended: the import of any script ends normally and recovers exactly
\* the well-formed marker lines in file order, wherever the malformed ones
\* sit; malformed is a marker line of an unknown kind, a Click line whose X or
\* Y value or a Sleep line whose MS value int() rejects.  A token without
\* '=' is ignored and does not make its line malformed: the line yields an
\* Action with the defaults for the missing keys.
C5_WellFormedLinesRecovered ==
    picked # <<>> =>
        /\ msg = "Loaded .ahk"
        /\ actions = Recovered(PickedLines)

\* C5 witness: a script of a Click line with a non-numeric X followed by a
\* well-formed Click line was imported and exactly the second came back.
C5_Witness ==
    /\ picked # <<>>
    /\ msg = "Loaded .ahk"
    /\ Len(PickedLines) = 2
    /\ LineKind(PickedLines[1]) = <<"C", "l", "i", "c", "k">>
    /\ ~IsInt(PickedLines[1], <<"X">>)
    /\ WellFormedStrict(PickedLines[2])
    /\ actions = << Action("CLICK", <<"a">>, 1, 2, 0, <<>>, ModeNormal, <<>>) >>

(***************************************************************************)
(* Properties of the hotkey of the exported script (checked under          *)
(* SpecHotkey).                                                            *)
(***************************************************************************)
\* t is s without the whitespace at its two ends
IsTrimOf(t, s) ==
    \E i \in 0..Len(s) : \E j \in i..Len(s) :
        /\ t = SubSeq(s, i + 1, j)
        /\ \A k \in 1..i : s[k] \in Whitespace
        /\ \A k \in (j + 1)..Len(s) : s[k] \in Whitespace
        /\ t # <<>> => t[1] \notin Whitespace /\ t[Len(t)] \notin Whitespace

Trimmed(s) ==
    CHOOSE t \in {SubSeq(s, i + 1, j) : i \in 0..Len(s), j \in 0..Len(s)} : IsTrimOf(t, s)

HotkeyCommentPrefix ==
    <<";", " ", "H", "o", "t", "k", "e", "y", " ", "t", "o", " ", "r", "u", "n", " ", "t", "h",
      "e", " ", "s", "e", "q", "u", "e", "n", "c", "e", ":", " ">>

\* C11: hotkey fallback.  In every exported script the hotkey comment line is
\* '; Hotkey to run the sequence: <key>' and the label line is '<key>::',
\* where <key> is the text of the hotkey field without the whitespace around
\* it, or 'F9' when nothing is left of it; the label line is never '::'.
C11_HotkeyFallback ==
    ahk_file # <<>> =>
        LET ls == ExportedLines
            t == Trimmed(saved[1].hotkey)
            key == IF t = <<>> THEN <<"F", "9">> ELSE t
        IN  /\ Len(ls) >= 7
            /\ ls[6] = HotkeyCommentPrefix \o key
            /\ ls[7] = key \o <<":", ":">>
            /\ ls[7] # <<":", ":">>

\* C11 witness: a hotkey field holding nothing but a blank and a tab was
\* exported and the label line is 'F9::'.
C11_Witness ==
    /\ ahk_file # <<>>
    /\ saved[1].hotkey # <<>>
    /\ \A i \in DOMAIN saved[1].hotkey : saved[1].hotkey[i] \in Whitespace
    /\ Contains(saved[1].hotkey, "\t")
    /\ ExportedLines[6] = HotkeyCommentPrefix \o <<"F", "9">>
    /\ ExportedLines[7] = <<"F", "9", ":", ":">>

(***************************************************************************)
(* Properties of opening a file over a project (checked under SpecOpen).   *)
(***************************************************************************)
Separators == {"/", "\\"}

\* b is the part of path behind its last separator
IsBaseNameOf(b, path) ==
    \E k \in 0..Len(path) :
        /\ b = SubSeq(path, k + 1, Len(path))
        /\ k > 0 => path[k] \in Separators
        /\ \A i \in DOMAIN b : b[i] \notin Separators

\* name is b without its extension: the extension starts at the last dot of
\* b, and a b that has nothing but dots before its last dot has none
IsWithoutExtension(name, b) ==
    \E k \in 0..Len(b) :
        LET ext == SubSeq(b, k + 1, Len(b))
        IN  /\ name = SubSeq(b, 1, k)
            /\ \/ /\ ext # <<>>
                  /\ ext[1] = "."
                  /\ ~Contains(Tail(ext), ".")
                  /\ \E i \in DOMAIN name : name[i] # "."
               \/ /\ ext = <<>>
                  /\ \A d \in DOMAIN b :
                        (b[d] = "." /\ \A j \in (d + 1)..Len(b) : b[j] # ".")
                            => \A i \in 1..(d - 1) : b[i] = "."

\* acts are the records, one Action per record in order, each with the kind
\* and the fields its record carries
ActionsAreRecords(acts, records) ==
    /\ Len(acts) = Len(records)
    /\ \A i \in DOMAIN records :
        /\ ActionTypeValue(acts[i].type) = records[i]["type"]
        /\ \A k \in DOMAIN records[i] \ {"type"} : acts[i][k] = records[i][k]

\* C12: load replaces wholesale, import leaves the hotkey alone.  A step that
\* ends with a script imported leaves as the action list exactly the Actions
\* of the well-formed marker lines of the file, whatever the list was before,
\* the application name the base name of the path without its extension, and
\* the hotkey as it was before the step; a step that ends with a document
\* loaded leaves as the action list exactly the records of the document,
\* whatever the list was before.
C12_LoadReplacesWholesale ==
    [][ /\ (msg' = "Loaded .ahk" /\ picked' # <<>>) =>
            LET file == picked'[1]
            IN  /\ actions' = Recovered(Split(file.text, "\n"))
                /\ \E b \in {SubSeq(file.path, k, Len(file.path)) : k \in 1..(Len(file.path) + 1)} :
                        IsBaseNameOf(b, file.path) /\ IsWithoutExtension(app_name', b)
                /\ hotkey' = hotkey
        /\ (msg' = "Loaded" /\ picked' # <<>>) =>
            ActionsAreRecords(actions', dict_get(picked'[1], "actions", <<>>))
      ]_vars

\* C12 witness: a script of one Click line, at a path with a directory and a
\* dot in the name, was imported over a project whose hotkey the user had
\* replaced by a blank: the list is the one Click, the name is 'a.b', the
\* hotkey is still the blank.
C12_Witness ==
    /\ msg = "Loaded .ahk"
    /\ picked # <<>>
    /\ picked[1].path = <<"d", "/", "a", ".", "b", ".", "a", "h", "k">>
    /\ actions = << Action("CLICK", <<"a">>, 1, 2, 0, <<>>, ModeNormal, <<>>) >>
    /\ app_name = <<"a", ".", "b">>
    /\ hotkey = <<" ">>

(***************************************************************************)
(* Properties of the list editing handlers (checked under SpecEdit).       *)
(***************************************************************************)
\* how often x occurs in seq
Occurrences(seq, x) == Cardinality({i \in DOMAIN seq : seq[i] = x})

SameMultiset(s, t) ==
    \A x \in {s[i] : i \in DOMAIN s} \cup {t[i] : i \in DOMAIN t} :
        Occurrences(s, x) = Occurrences(t, x)

\* after is before with the elements at the 0-based positions r and n
\* exchanged, n next to r, and every other position as it was
IsNeighbourSwap(before, after, r, n) ==
    /\ n \in {r - 1, r + 1}
    /\ r + 1 \in DOMAIN before /\ n + 1 \in DOMAIN before
    /\ Len(after) = Len(before)
    /\ after[r + 1] = before[n + 1]
    /\ after[n + 1] = before[r + 1]
    /\ \A i \in DOMAIN before \ {r + 1, n + 1} : after[i] = before[i]
    /\ SameMultiset(before, after)

\* after is before without the element at the 0-based position r
IsRemovalAt(before, after, r) ==
    /\ r + 1 \in DOMAIN before
    /\ Len(after) = Len(before) - 1
    /\ \A i \in 1..r : after[i] = before[i]
    /\ \A i \in (r + 1)..Len(after) : after[i] = before[i + 1]

\* after is before with a at the 0-based position r
IsReplacementAt(before, after, r, a) ==
    /\ r + 1 \in DOMAIN before
    /\ Len(after) = Len(before)
    /\ after[r + 1] = a
    /\ \A i \in DOMAIN before \ {r + 1} : after[i] = before[i]

ValidSelection == 0 <= row /\ row < Len(actions)

\* C13: list edits keep the sequence well-formed.  In every step of an
\* editing session: no handler indexes outside the list; move-up exchanges
\* the selected Action with the one before it, and changes nothing on the
\* first row or without a selection; move-down exchanges it with the one
\* after it, and changes nothing on the last row or without a selection;
\* remove deletes exactly the selected position and keeps the order of the
\* rest; edit replaces exactly the selected position; edit and remove without
\* a valid selection change nothing; add appends at the end.
C13_ListEditsWellFormed ==
    [][ /\ msg' # "IndexError"
        /\ move_action_up =>
                IF row > 0 THEN IsNeighbourSwap(actions, actions', row, row - 1)
                ELSE actions' = actions
        /\ move_action_down =>
                IF ValidSelection /\ row # Len(actions) - 1
                THEN IsNeighbourSwap(actions, actions', row, row + 1)
                ELSE actions' = actions
        /\ remove_action =>
                IF ValidSelection THEN IsRemovalAt(actions, actions', row)
                ELSE actions' = actions
        /\ \A a \in DialogActions :
                /\ edit_action(a) =>
                        IF ValidSelection THEN IsReplacementAt(actions, actions', row, a)
                        ELSE actions' = actions
                /\ add_action(a) =>
                        /\ Len(actions') = Len(actions) + 1
                        /\ actions'[Len(actions')] = a
                        /\ \A i \in DOMAIN actions : actions'[i] = actions[i]
      ]_vars

\* C13 witness: on a list of one Run Action with no row selected, edit or
\* remove answered 'Select action' and the list is still there.
C13_Witness ==
    /\ msg = "Select action"
    /\ row = -1
    /\ Len(actions) = 1
    /\ table_rows = 1
    /\ actions[1].type = "RUN"
====
